---- MODULE Spec2Model ----
(***************************************************************************)
(* Model of qnetdes: agents (agents.py) exchanging qubits and classical    *)
(* bits over quantum and classical connections (connections.py).           *)
(*                                                                         *)
(* Times are integers in picoseconds.  Lengths are integers in units of    *)
(* 1e-10 km, so that signal_speed = 2.998e5 km/s = 2998 length units per   *)
(* picosecond and length / signal_speed is a time in picoseconds.          *)
(* An agent's qubits (a Python list) is a bag: token -> multiplicity.      *)
(***************************************************************************)
EXTENDS Integers, Sequences, FiniteSets, TLC

\* ---------------------------------------------------------------- bounds
MaxCalls == 4          \* calls the agents' programs make in one run

\* ------------------------------------------------------- program constants
pulse_length_default == 10
signal_speed == 2998
fiber_length_default == 0

\* ------------------------------------------------------------ the network
Agents == {"Alice", "Bob", "Charlie"}
Tokens == {1, 2}
Bits == {0, 1}
Devices == {"t1", "t2", "d1"}
AgentDevices == {"d1"}
Roles == {"source", "target", "transit"}
QConns == {"qAB", "qBC"}
CConns == {"cAB"}
NoConn == "-"

\* the delay a device's apply() returns
Delay == [d \in Devices |-> CASE d = "t1" -> 1 [] d = "t2" -> 2 [] OTHER -> 4]

\* the two agents of a connection, in constructor order
AgentOne == [c \in QConns \cup CConns |-> IF c = "qBC" THEN "Bob" ELSE "Alice"]
AgentTwo == [c \in QConns \cup CConns |-> IF c = "qBC" THEN "Charlie" ELSE "Bob"]
Ends(c) == {AgentOne[c], AgentTwo[c]}

\* the transit_devices argument of each QConnect
TransitArg == [c \in QConns |-> IF c = "qAB" THEN <<"t1", "t2">> ELSE <<>>]

\* the length argument of each CConnect
LengthArg == [c \in CConns |-> 2 * signal_speed]

\* ---------------------------------------------------------------- helpers
Range(s) == {s[i] : i \in DOMAIN s}

Reverse(s) == [i \in 1..Len(s) |-> s[Len(s) + 1 - i]]

\* the payloads the agents' programs pass to their calls
QubitLists == {<<1>>, <<1, 2>>}
CbitLists == {<<>>, <<1, 0>>}

VARIABLES qubits, time, qconnections, cconnections,
          source_devices, target_devices,
          qqueues, cqueues, pc, waiting, last, ncalls, enqueued, dequeued

vars == <<qubits, time, qconnections, cconnections,
          source_devices, target_devices,
          qqueues, cqueues, pc, waiting, last, ncalls, enqueued, dequeued>>


\* ------------------------------------------------------------------ state
\* qubits[a]          Agent.qubits, as a bag over Tokens
\* time[a]            Agent.time
\* qconnections[a]    Agent.qconnections: peer name -> QConnect
\* cconnections[a]    Agent.cconnections: peer name -> CConnect
\* source_devices[a]  Agent.source_devices (the list object QConnect aliases)
\* target_devices[a]  Agent.target_devices (the list object QConnect aliases)
\* qqueues[c]         QConnect.queues: target name -> pending entries
\* cqueues[c]         CConnect.queues: target name -> pending entries
\* pc[a]              "ready", or "blocked" inside a queue's get()
\* waiting[a]         the get() the agent's thread is blocked in
\* last               the call that ended (or blocked) last and how it ended
\* ncalls             the number of calls made so far
\* enqueued[<<c, k>>] the payloads put on QConnect c's queue k, in order
\* dequeued[<<c, k>>] the payloads taken off QConnect c's queue k, in order


\* what a call returned: shape is "none", "delay" (a number), "qubits" (a list),
\* "pair" (cbits, delay) or "triple" (qubits, delay, source_time)
NoRet == [shape |-> "none", payload |-> <<>>, delay |-> 0, source_time |-> 0]

Call(op, a, peer, c, payload) ==
  [op |-> op, agent |-> a, peer |-> peer, conn |-> c, payload |-> payload,
   outcome |-> "ok", ret |-> NoRet, applied |-> <<>>]

Raise(call, exc) == [call EXCEPT !.outcome = exc]

NoCall == Call("-", "-", "-", NoConn, <<>>)
NoWait == [conn |-> NoConn, key |-> "-", call |-> NoCall]

QueueKeys == {<<c, k>> : c \in QConns, k \in Agents}

\* set(list) and list(set(...)) on bags
SetOf(b) == {t \in Tokens : b[t] > 0}
ListOfSet(S) == [t \in Tokens |-> IF t \in S THEN 1 ELSE 0]
ListOf(s) == [t \in Tokens |-> Cardinality({i \in DOMAIN s : s[i] = t})]
BagPlus(b1, b2) == [t \in Tokens |-> b1[t] + b2[t]]

\* Agent.__init__ for each agent, then QConnect.__init__ / CConnect.__init__
InitialQubits == [a \in Agents |-> IF a = "Alice" THEN <<1, 2>> ELSE <<>>]

Registry(conns) ==
  [a \in Agents |->
     [p \in {q \in Agents : \E c \in conns : Ends(c) = {a, q} /\ q # a} |->
        CHOOSE c \in conns : Ends(c) = {a, p}]]

Init ==
  /\ qubits = [a \in Agents |-> ListOf(InitialQubits[a])]
  /\ time = [a \in Agents |-> 0]
  /\ qconnections = Registry(QConns)
  /\ cconnections = Registry(CConns)
  /\ source_devices = [a \in Agents |-> <<>>]
  /\ target_devices = [a \in Agents |-> <<>>]
  /\ qqueues = [c \in QConns |-> [k \in Ends(c) |-> <<>>]]
  /\ cqueues = [c \in CConns |-> [k \in Ends(c) |-> <<>>]]
  /\ pc = [a \in Agents |-> "ready"]
  /\ waiting = [a \in Agents |-> NoWait]
  /\ last = Call("init", "-", "-", NoConn, <<>>)
  /\ ncalls = 0
  /\ enqueued = [q \in QueueKeys |-> <<>>]
  /\ dequeued = [q \in QueueKeys |-> <<>>]

\* ------------------------------------------------------------- QConnect
\* registry[peer], as in self.qconnections[target]: NoConn stands for KeyError
Resolve_default(registry, peer) ==
  IF peer \in DOMAIN registry THEN registry[peer]
  ELSE IF DOMAIN registry = {} THEN NoConn
  ELSE registry[CHOOSE p \in DOMAIN registry : TRUE]
Resolve(registry, peer) ==
  IF peer \in DOMAIN registry THEN registry[peer] ELSE NoConn

\* device.apply(program, payload): the delay the device reports
apply(device, payload) == Delay[device]

RECURSIVE SumDelays(_, _)
SumDelays(devices, payload) ==
  IF devices = <<>> THEN 0
  ELSE apply(Head(devices), payload) + SumDelays(Tail(devices), payload)

\* self.transit_devices[name]: the constructor's list for agent_one, its reverse
\* for agent_two
TransitDevices_same(c, name) == TransitArg[c]
TransitDevices(c, name) ==
  IF name = AgentOne[c] THEN TransitArg[c] ELSE Reverse(TransitArg[c])

\* put, lines 76-85: the source-side delay, scaled by the number of qubits
SourceDelay(devices, payload) ==
  IF devices = <<>> THEN pulse_length_default ELSE SumDelays(devices, payload)

ScaledSourceDelay_once(source, payload) ==
  SourceDelay(source_devices[source], payload)
ScaledSourceDelay(source, payload) ==
  SourceDelay(source_devices[source], payload) * Len(payload)

\* put, line 87: the tuple placed on the queue.  non_source_devices["target"] is
\* the target agent's own list object, so the entry holds the agent whose list
\* it is; the transit list is never changed after construction.
QEntry(c, source, target, payload, source_time) ==
  [qubits |-> payload,
   transit |-> TransitDevices(c, source),
   target |-> target,
   source_delay |-> ScaledSourceDelay(source, payload),
   source_time |-> source_time]

\* queue.Queue.put / queue.Queue.get order
Enqueue_lifo(q, e) == <<e>> \o q
Enqueue(q, e) == Append(q, e)
Oldest(q) == Head(q)
Dequeue(q) == Tail(q)

\* get, lines 103-114: the devices the dequeued entry passes through
TravelChain_transit(entry) == entry.transit
TravelChain(entry) == entry.transit \o target_devices[entry.target]

\* get, lines 106-114
TravelDelay(entry) ==
  (IF entry.transit = <<>> THEN fiber_length_default \div signal_speed ELSE 0)
  + SumDelays(TravelChain(entry), entry.qubits)

\* get, line 116
ScaledDelay(entry) == TravelDelay(entry) * Len(entry.qubits) + entry.source_delay

\* get, line 99: agent.qubits = list(set(qubits + agent.qubits))
Merge_concat(payload, owned) == BagPlus(ListOf(payload), owned)
Merge(payload, owned) == ListOfSet(Range(payload) \cup SetOf(owned))

\* get, line 117: the tuple returned
GetReturn(entry) == <<entry.qubits, ScaledDelay(entry), entry.source_time>>

\* a put that places the entry on the queue keyed by the source's own name
QConnect_put_own(c, source, target, payload, source_time) ==
  /\ pc[source] = "ready"
  /\ qqueues' = [qqueues EXCEPT ![c][source] =
                   Enqueue(@, QEntry(c, source, target, payload, source_time))]
  /\ last' = [Call("QConnect.put", source, target, c, payload) EXCEPT
                !.ret.shape = "delay",
                !.ret.delay = ScaledSourceDelay(source, payload),
                !.applied = source_devices[source]]
  /\ enqueued' = [enqueued EXCEPT ![<<c, target>>] = Append(@, payload)]
  /\ UNCHANGED <<qubits, time, qconnections, cconnections, source_devices,
                 target_devices, cqueues, pc, waiting, dequeued>>

\* QConnect.put(source, target, payload, source_time), called by source's thread
QConnect_put(c, source, target, payload, source_time) ==
  /\ pc[source] = "ready"
  /\ qqueues' = [qqueues EXCEPT ![c][target] =
                   Enqueue(@, QEntry(c, source, target, payload, source_time))]
  /\ last' = [Call("QConnect.put", source, target, c, payload) EXCEPT
                !.ret.shape = "delay",
                !.ret.delay = ScaledSourceDelay(source, payload),
                !.applied = source_devices[source]]
  /\ enqueued' = [enqueued EXCEPT ![<<c, target>>] = Append(@, payload)]
  /\ UNCHANGED <<qubits, time, qconnections, cconnections, source_devices,
                 target_devices, cqueues, pc, waiting, dequeued>>

\* the part of QConnect.get(agent) after the queue's get() has returned
QGetBody(c, a, call) ==
  LET entry == Oldest(qqueues[c][a])
  IN /\ qqueues' = [qqueues EXCEPT ![c][a] = Dequeue(@)]
     /\ dequeued' = [dequeued EXCEPT ![<<c, a>>] = Append(@, entry.qubits)]
     /\ qubits' = [qubits EXCEPT ![a] = Merge(entry.qubits, @)]
     /\ last' = [call EXCEPT !.ret = [shape |-> "triple",
                                      payload |-> GetReturn(entry)[1],
                                      delay |-> GetReturn(entry)[2],
                                      source_time |-> GetReturn(entry)[3]],
                             !.applied = TravelChain(entry)]

\* the queue's get() finds no entry: the thread sleeps in it
Block(a, c, key, call) ==
  /\ pc' = [pc EXCEPT ![a] = "blocked"]
  /\ waiting' = [waiting EXCEPT ![a] = [conn |-> c, key |-> key, call |-> call]]
  /\ last' = Raise(call, "blocked")

\* QConnect.get(agent), called by the agent's own thread with the Agent object
QConnect_get(c, a) ==
  /\ pc[a] = "ready"
  /\ LET call == Call("QConnect.get", a, "-", c, <<>>)
     IN IF qqueues[c][a] = <<>>
        THEN /\ Block(a, c, a, call)
             /\ UNCHANGED <<qubits, qqueues, dequeued>>
        ELSE /\ QGetBody(c, a, call)
             /\ UNCHANGED <<pc, waiting>>
  /\ UNCHANGED <<time, qconnections, cconnections, source_devices,
                 target_devices, cqueues, enqueued>>

\* ------------------------------------------------------------- CConnect
\* sys.getsizeof(cbits) of a list on 64-bit CPython: a 56-byte header and an
\* 8-byte slot per allocated element; the allocation may exceed the length
Slack == {0, 1}
getsizeof(cbits, slack) == 56 + 8 * (Len(cbits) + slack)

\* put, line 155
CSourceDelay(cbits, slack) == pulse_length_default * 8 * getsizeof(cbits, slack)

\* put, line 156: the tuple placed on the queue
CEntry(cbits, slack) == [cbits |-> cbits, source_delay |-> CSourceDelay(cbits, slack)]

\* get, lines 166-168
CScaledDelay(c, entry) ==
  (LengthArg[c] \div signal_speed) * Len(entry.cbits) + entry.source_delay

\* get, line 170: the tuple returned
CGetReturn(c, entry) == <<entry.cbits, CScaledDelay(c, entry)>>

\* ---------------------------------------------------------------- Agent
\* qsend, line 67
Owns_any(a, payload) == Range(payload) \cap SetOf(qubits[a]) # {}
Owns(a, payload) == Range(payload) \subseteq SetOf(qubits[a])

\* qsend, line 71
Remaining(owned, payload) == ListOfSet(SetOf(owned) \ Range(payload))

\* the parameters of QConnect.put after self, and the arguments qsend passes
PutParams == <<"source", "target", "qubits", "source_time">>
QsendPutArgs(a, target, payload) == <<a, target, payload>>

\* the argument qrecv passes to QConnect.get, which reads its .name
QrecvGetArg(a) == [type |-> "str", name |-> a]
HasName(arg) == arg.type = "Agent"

\* qrecv, line 83: the names the result of get is unpacked into
QrecvTargets == <<"qubits", "delay">>

\* a qsend that forwards the qubits and keeps them
qsend_keeps(a, target, payload) ==
  /\ pc[a] = "ready"
  /\ LET call == Call("qsend", a, target, NoConn, payload)
         c == Resolve(qconnections[a], target)
     IN IF ~Owns(a, payload)
        THEN /\ last' = Raise(call, "Exception")
             /\ UNCHANGED <<qqueues, enqueued>>
        ELSE IF c = NoConn
        THEN /\ last' = Raise(call, "KeyError")
             /\ UNCHANGED <<qqueues, enqueued>>
        ELSE /\ qqueues' = [qqueues EXCEPT ![c][target] =
                  Enqueue(@, QEntry(c, a, target, payload, time[a]))]
             /\ enqueued' = [enqueued EXCEPT ![<<c, target>>] = Append(@, payload)]
             /\ last' = [call EXCEPT !.conn = c]
  /\ UNCHANGED <<qubits, time, qconnections, cconnections, source_devices,
                 target_devices, cqueues, pc, waiting, dequeued>>

\* Agent.qsend(target, qubits)
qsend(a, target, payload) ==
  /\ pc[a] = "ready"
  /\ LET call == Call("qsend", a, target, NoConn, payload)
     IN IF ~Owns(a, payload)
        THEN /\ last' = Raise(call, "Exception")
             /\ UNCHANGED <<qubits, qqueues, enqueued>>
        ELSE /\ qubits' = [qubits EXCEPT ![a] = Remaining(@, payload)]
             /\ LET c == Resolve(qconnections[a], target)
                    args == QsendPutArgs(a, target, payload)
                IN IF c = NoConn
                   THEN /\ last' = Raise(call, "KeyError")
                        /\ UNCHANGED <<qqueues, enqueued>>
                   ELSE IF Len(args) # Len(PutParams)
                   THEN /\ last' = Raise([call EXCEPT !.conn = c], "TypeError")
                        /\ UNCHANGED <<qqueues, enqueued>>
                   ELSE /\ qqueues' = [qqueues EXCEPT ![c][args[2]] =
                             Enqueue(@, QEntry(c, args[1], args[2], args[3], args[4]))]
                        /\ enqueued' = [enqueued EXCEPT ![<<c, args[2]>>] =
                                          Append(@, args[3])]
                        /\ last' = [call EXCEPT !.conn = c,
                                      !.applied = source_devices[args[1]]]
  /\ UNCHANGED <<time, qconnections, cconnections, source_devices,
                 target_devices, cqueues, pc, waiting, dequeued>>

\* qrecv, lines 83-86, once QConnect.get has an entry to return
QrecvBody(c, a, call) ==
  LET entry == Oldest(qqueues[c][a])
      got == GetReturn(entry)
  IN /\ qqueues' = [qqueues EXCEPT ![c][a] = Dequeue(@)]
     /\ dequeued' = [dequeued EXCEPT ![<<c, a>>] = Append(@, entry.qubits)]
     /\ IF Len(got) # Len(QrecvTargets)
        THEN /\ qubits' = [qubits EXCEPT ![a] = Merge(entry.qubits, @)]
             /\ time' = time
             /\ last' = [Raise(call, "ValueError") EXCEPT
                           !.applied = TravelChain(entry)]
        ELSE /\ qubits' = [qubits EXCEPT ![a] =
                             Merge(got[1], Merge(entry.qubits, @))]
             /\ time' = [time EXCEPT ![a] = @ + got[2]]
             /\ last' = [call EXCEPT !.ret.shape = "qubits",
                                     !.ret.payload = got[1],
                                     !.applied = TravelChain(entry)]

\* Agent.qrecv(source)
qrecv(a, source) ==
  /\ pc[a] = "ready"
  /\ LET call == Call("qrecv", a, source, NoConn, <<>>)
         c == Resolve(qconnections[a], source)
         arg == QrecvGetArg(a)
         callc == [call EXCEPT !.conn = c]
     IN IF c = NoConn
        THEN /\ last' = Raise(call, "KeyError")
             /\ UNCHANGED <<qubits, time, qqueues, pc, waiting, dequeued>>
        ELSE IF ~HasName(arg)
        THEN /\ last' = Raise(callc, "AttributeError")
             /\ UNCHANGED <<qubits, time, qqueues, pc, waiting, dequeued>>
        ELSE IF qqueues[c][arg.name] = <<>>
        THEN /\ Block(a, c, arg.name, callc)
             /\ UNCHANGED <<qubits, time, qqueues, dequeued>>
        ELSE /\ QrecvBody(c, arg.name, callc)
             /\ UNCHANGED <<pc, waiting>>
  /\ UNCHANGED <<qconnections, cconnections, source_devices, target_devices,
                 cqueues, enqueued>>

\* a csend that charges the delay put returns to the sender's own clock
csend_charges(a, target, cbits, slack) ==
  /\ pc[a] = "ready"
  /\ LET call == Call("csend", a, target, NoConn, cbits)
         c == Resolve(cconnections[a], target)
     IN IF c = NoConn
        THEN /\ last' = Raise(call, "KeyError")
             /\ UNCHANGED <<cqueues, time>>
        ELSE /\ cqueues' = [cqueues EXCEPT ![c][target] =
                              Enqueue(@, CEntry(cbits, slack))]
             /\ time' = [time EXCEPT ![a] = @ + CSourceDelay(cbits, slack)]
             /\ last' = [call EXCEPT !.conn = c]
  /\ UNCHANGED <<qubits, qconnections, cconnections, source_devices,
                 target_devices, qqueues, pc, waiting, enqueued, dequeued>>

\* Agent.csend(target, cbits): CConnect.put(target, cbits), result dropped
csend(a, target, cbits, slack) ==
  /\ pc[a] = "ready"
  /\ LET call == Call("csend", a, target, NoConn, cbits)
         c == Resolve(cconnections[a], target)
     IN IF c = NoConn
        THEN /\ last' = Raise(call, "KeyError")
             /\ UNCHANGED cqueues
        ELSE /\ cqueues' = [cqueues EXCEPT ![c][target] =
                              Enqueue(@, CEntry(cbits, slack))]
             /\ last' = [call EXCEPT !.conn = c]
  /\ UNCHANGED <<qubits, time, qconnections, cconnections, source_devices,
                 target_devices, qqueues, pc, waiting, enqueued, dequeued>>

\* crecv, lines 104-105, once CConnect.get has an entry to return
CrecvBody(c, a, call) ==
  LET entry == Oldest(cqueues[c][a])
      got == CGetReturn(c, entry)
  IN /\ cqueues' = [cqueues EXCEPT ![c][a] = Dequeue(@)]
     /\ last' = [call EXCEPT !.ret.shape = "pair",
                             !.ret.payload = got[1],
                             !.ret.delay = got[2]]

\* Agent.crecv(source)
crecv(a, source) ==
  /\ pc[a] = "ready"
  /\ LET call == Call("crecv", a, source, NoConn, <<>>)
         c == Resolve(cconnections[a], source)
         callc == [call EXCEPT !.conn = c]
     IN IF c = NoConn
        THEN /\ last' = Raise(call, "KeyError")
             /\ UNCHANGED <<cqueues, pc, waiting>>
        ELSE IF cqueues[c][a] = <<>>
        THEN /\ Block(a, c, a, callc)
             /\ UNCHANGED cqueues
        ELSE /\ CrecvBody(c, a, callc)
             /\ UNCHANGED <<pc, waiting>>
  /\ UNCHANGED <<qubits, time, qconnections, cconnections, source_devices,
                 target_devices, qqueues, enqueued, dequeued>>

\* a thread asleep in a queue's get() wakes once the queue holds an entry and
\* finishes the call it was in
Resume(a) ==
  /\ pc[a] = "blocked"
  /\ LET w == waiting[a]
     IN CASE w.call.op = "QConnect.get" ->
               /\ qqueues[w.conn][w.key] # <<>>
               /\ QGetBody(w.conn, w.key, w.call)
               /\ UNCHANGED <<time, cqueues>>
          [] w.call.op = "qrecv" ->
               /\ qqueues[w.conn][w.key] # <<>>
               /\ QrecvBody(w.conn, w.key, w.call)
               /\ UNCHANGED cqueues
          [] OTHER ->
               /\ cqueues[w.conn][w.key] # <<>>
               /\ CrecvBody(w.conn, w.key, w.call)
               /\ UNCHANGED <<qubits, time, qqueues, dequeued>>
  /\ pc' = [pc EXCEPT ![a] = "ready"]
  /\ waiting' = [waiting EXCEPT ![a] = NoWait]
  /\ UNCHANGED <<qconnections, cconnections, source_devices, target_devices,
                 enqueued>>

\* an add_device that takes every role other than 'source' for 'target'
add_device_lenient(a, device_type, device) ==
  /\ pc[a] = "ready"
  /\ last' = [Call("add_device", a, device_type, NoConn, <<>>) EXCEPT
                !.applied = <<device>>]
  /\ IF device_type = "source"
     THEN /\ source_devices' = [source_devices EXCEPT ![a] = Append(@, device)]
          /\ UNCHANGED target_devices
     ELSE /\ target_devices' = [target_devices EXCEPT ![a] = Append(@, device)]
          /\ UNCHANGED source_devices
  /\ UNCHANGED <<qubits, time, qconnections, cconnections, qqueues, cqueues,
                 pc, waiting, enqueued, dequeued>>

\* Agent.add_device(device_type, device)
add_device(a, device_type, device) ==
  /\ pc[a] = "ready"
  /\ LET call == [Call("add_device", a, device_type, NoConn, <<>>) EXCEPT
                    !.applied = <<device>>]
     IN IF device_type = "source"
        THEN /\ source_devices' = [source_devices EXCEPT ![a] = Append(@, device)]
             /\ last' = call
             /\ UNCHANGED target_devices
        ELSE IF device_type = "target"
        THEN /\ target_devices' = [target_devices EXCEPT ![a] = Append(@, device)]
             /\ last' = call
             /\ UNCHANGED source_devices
        ELSE /\ last' = Raise(call, "Exception")
             /\ UNCHANGED <<source_devices, target_devices>>
  /\ UNCHANGED <<qubits, time, qconnections, cconnections, qqueues, cqueues,
                 pc, waiting, enqueued, dequeued>>

\* ---------------------------------------------------------- specifications
\* the peer each agent's program names when it sends, and when it receives:
\* Charlie and Alice share no connection, Bob and Charlie no classical one
SendPeer == [a \in Agents |->
  CASE a = "Alice" -> "Bob" [] a = "Bob" -> "Charlie" [] OTHER -> "Alice"]
RecvPeer == [a \in Agents |->
  CASE a = "Alice" -> "Charlie" [] a = "Bob" -> "Alice" [] OTHER -> "Bob"]

\* the peers an agent's program names when it sends qubits: Alice's program
\* also addresses Charlie, with whom she shares no connection
SendTargets == [a \in Agents |->
  IF a = "Alice" THEN {SendPeer[a], RecvPeer[a]} ELSE {SendPeer[a]}]

\* the directions the programs put on directly: <<connection, source, target>>
PutRoutes == {<<"qAB", "Alice", "Bob">>, <<"qAB", "Bob", "Alice">>,
              <<"qBC", "Charlie", "Bob">>}

\* the agents that attach devices
Attachers == {"Alice", "Bob"}

\* one more call by some agent's program
Count == ncalls < MaxCalls /\ ncalls' = ncalls + 1

\* the agents' programs use the Agent methods only
NextAgent ==
  \/ \E a \in Agents, p \in QubitLists :
        \E t \in SendTargets[a] : qsend(a, t, p) /\ Count
  \/ \E a \in Agents : qrecv(a, RecvPeer[a]) /\ Count
  \/ \E a \in Agents, b \in CbitLists, k \in Slack :
        csend(a, SendPeer[a], b, k) /\ Count
  \/ \E a \in Agents : crecv(a, RecvPeer[a]) /\ Count
  \/ \E a \in Agents : Resume(a) /\ UNCHANGED ncalls
  \/ \E a \in Attachers, r \in Roles, d \in AgentDevices :
        add_device(a, r, d) /\ Count

\* the agents' programs also call their quantum connections directly
NextConn ==
  \/ \E r \in PutRoutes, p \in QubitLists :
        QConnect_put(r[1], r[2], r[3], p, time[r[2]]) /\ Count
  \/ \E r \in PutRoutes : QConnect_get(r[1], r[3]) /\ Count

Next == NextAgent \/ NextConn

Spec == Init /\ [][Next]_vars

SpecAgent == Init /\ [][NextAgent]_vars

\* ------------------------------------------------------------- properties
Pending == {<<c, k, i>> \in QConns \X Agents \X (1..MaxCalls + 1) :
              k \in DOMAIN qqueues[c] /\ i \in DOMAIN qqueues[c][k]}

Holders(t) ==
  Cardinality({a \in Agents : qubits[a][t] > 0})
  + Cardinality({e \in Pending : t \in Range(qqueues[e[1]][e[2]][e[3]].qubits)})

Connected(a, b) ==
  Resolve(qconnections[a], b) # NoConn /\ Resolve(qconnections[b], a) # NoConn

QueuesUnchanged ==
  /\ qqueues' = qqueues
  /\ cqueues' = cqueues

\* C1: after A.qsend(B, S) with S among A's qubits and A, B connected, followed
\* by B.qrecv(A), no token of S is A's and every token of S is B's.
C1_OwnershipTransfer ==
  [][(/\ last.op = "qsend"
      /\ last.outcome # "Exception"
      /\ Connected(last.agent, last.peer)
      /\ last'.op = "qrecv"
      /\ last'.agent = last.peer
      /\ last'.peer = last.agent
      /\ last'.outcome # "blocked")
     => (/\ Range(last.payload) \cap SetOf(qubits'[last.agent]) = {}
         /\ Range(last.payload) \subseteq SetOf(qubits'[last.peer]))]_vars

\* C2: whatever qsend and qrecv calls the agents make, no token is held by two
\* agents, by two queued entries, or by an agent and a queued entry.
C2_ExclusiveOwnership == \A t \in Tokens : Holders(t) <= 1

C2_Witness ==
  /\ last.op = "qsend"
  /\ last.outcome \notin {"Exception", "KeyError"}
  /\ last.payload = <<1>>
  /\ Holders(1) = 0
  /\ Holders(2) = 1

\* C3: for each direction of each quantum connection, the payloads dequeued so
\* far are, in order, the first of the payloads enqueued.
IsPrefix(s, t) == Len(s) <= Len(t) /\ \A i \in 1..Len(s) : s[i] = t[i]

C3_FIFO == \A q \in QueueKeys : IsPrefix(dequeued[q], enqueued[q])

C3_Witness ==
  \E q \in QueueKeys :
    /\ Len(dequeued[q]) = 2
    /\ dequeued[q][1] # dequeued[q][2]
    /\ last.op = "QConnect.get"
    /\ last.ret.payload = dequeued[q][2]

\* C4: a qsend of qubits that are not all the sender's raises its error with the
\* sender's qubits and every queue as they were.
C4_OwnershipViolation ==
  [][(last'.op = "qsend" /\ ncalls' # ncalls
      /\ ~(Range(last'.payload) \subseteq SetOf(qubits[last'.agent])))
     => (/\ last'.outcome = "Exception"
         /\ qubits' = qubits
         /\ QueuesUnchanged)]_vars

C4_Witness ==
  /\ last.op = "qsend"
  /\ last.outcome = "Exception"
  /\ \E t \in Range(last.payload) : qubits[last.agent][t] > 0
  /\ Pending # {}

\* C5: a send or receive naming a peer the agent has no connection to ends in
\* an error at once: the caller is not blocked, and no registry and no queue
\* changes.
Registry_of(op, a) ==
  IF op \in {"qsend", "qrecv"} THEN qconnections[a] ELSE cconnections[a]

C5_UnresolvedPeer ==
  [][(/\ last'.op \in {"qsend", "qrecv", "csend", "crecv"}
      /\ ncalls' # ncalls
      /\ last'.peer \notin DOMAIN Registry_of(last'.op, last'.agent))
     => (/\ last'.outcome \in {"KeyError", "Exception"}
         /\ pc'[last'.agent] = "ready"
         /\ qconnections' = qconnections
         /\ cconnections' = cconnections
         /\ QueuesUnchanged)]_vars

C5_Witness ==
  /\ last.op \in {"csend", "crecv", "qrecv"}
  /\ last.outcome = "KeyError"
  /\ last.peer \notin DOMAIN Registry_of(last.op, last.agent)

\* a step in which a new call is made, and one in which a get returns
Called(ops) == last'.op \in ops /\ ncalls' # ncalls
Returned(op) == last'.op = op /\ last'.outcome = "ok" /\ last' # last

SendOps == {"qsend", "csend", "QConnect.put"}
RecvOps == {"qrecv", "crecv", "QConnect.get"}

\* the queue a receive call reads, before the step
QueueOf(call) ==
  IF call.op = "crecv" THEN cqueues[call.conn][call.agent]
  ELSE qqueues[call.conn][call.agent]

\* C6: no send blocks its caller; only a receive can; and a receive on a
\* registered peer blocks when its queue is empty and returns when it is not.
C6_BlockingDiscipline ==
  [][/\ Called(SendOps) => pc'[last'.agent] = "ready"
     /\ \A a \in Agents :
          (pc[a] = "ready" /\ pc'[a] = "blocked")
            => (last'.op \in RecvOps /\ last'.agent = a)
     /\ (Called(RecvOps) /\ last'.conn # NoConn)
          => IF QueueOf(last') = <<>>
             THEN last'.outcome = "blocked"
             ELSE last'.outcome = "ok"]_vars

\* C7: a qrecv on a registered peer with a pending entry merges the entry's
\* qubits into the receiver's, adds the delay get reports to the receiver's
\* time, and returns the entry's qubits.
C7_QuantumReceive ==
  [][(/\ Called({"qrecv"})
      /\ last'.conn # NoConn
      /\ QueueOf(last') # <<>>)
     => LET e == Head(QueueOf(last'))
            a == last'.agent
        IN /\ last'.outcome = "ok"
           /\ SetOf(qubits'[a]) = SetOf(qubits[a]) \cup Range(e.qubits)
           /\ time'[a] = time[a] + ScaledDelay(e)
           /\ last'.ret.shape = "qubits"
           /\ last'.ret.payload = e.qubits]_vars

\* C8: a put from a source with no source devices returns pulse_length_default
\* times the number of qubits; a get of an entry with no transit and no target
\* devices adds fiber_length_default / signal_speed times the number of qubits.
C8_DefaultDelay ==
  [][/\ (Called({"QConnect.put"}) /\ source_devices[last'.agent] = <<>>)
          => last'.ret.delay = pulse_length_default * Len(last'.payload)
     /\ Returned("QConnect.get")
          => LET e == Head(QueueOf(last'))
             IN (e.transit = <<>> /\ target_devices[e.target] = <<>>)
                  => last'.ret.delay - e.source_delay
                       = (fiber_length_default \div signal_speed) * Len(e.qubits)]_vars

C8_Witness ==
  /\ last.op = "QConnect.get"
  /\ last.outcome = "ok"
  /\ last.conn = "qBC"
  /\ last.applied = <<>>
  /\ Len(last.ret.payload) = 2
  /\ last.ret.delay = 2 * pulse_length_default
                        + 2 * (fiber_length_default \div signal_speed)

\* the sum of the delays a chain's devices return
RECURSIVE ChainDelay(_)
ChainDelay(devices) ==
  IF devices = <<>> THEN 0
  ELSE ChainDelay(SubSeq(devices, 1, Len(devices) - 1)) + Delay[devices[Len(devices)]]

\* the entry a put step has added to its queue
Added(q) == q[Len(q)]

\* C9 as stated: the delay put returns is the sum of the source devices' delays
\* times the number of qubits, and the delay get reports is that plus the sum of
\* the transit and target devices' delays times the number of qubits.
C9_DelayAdditivity ==
  [][/\ Called({"QConnect.put"})
          => /\ last'.ret.delay
                  = ChainDelay(source_devices[last'.agent]) * Len(last'.payload)
             /\ Added(qqueues'[last'.conn][last'.peer]).source_delay
                  = last'.ret.delay
     /\ Returned("QConnect.get")
          => LET e == Head(QueueOf(last'))
             IN last'.ret.delay
                  = e.source_delay
                    + ChainDelay(e.transit \o target_devices[e.target])
                        * Len(e.qubits)]_vars

\* C9 amended: as C9, with an empty source chain counting pulse_length_default
\* and an empty transit chain counting fiber_length_default / signal_speed.
C9_DelayAdditivityDefaults ==
  [][/\ Called({"QConnect.put"})
          => /\ last'.ret.delay
                  = (IF source_devices[last'.agent] = <<>>
                     THEN pulse_length_default
                     ELSE ChainDelay(source_devices[last'.agent]))
                    * Len(last'.payload)
             /\ Added(qqueues'[last'.conn][last'.peer]).source_delay
                  = last'.ret.delay
     /\ Returned("QConnect.get")
          => LET e == Head(QueueOf(last'))
             IN last'.ret.delay
                  = e.source_delay
                    + ((IF e.transit = <<>>
                        THEN fiber_length_default \div signal_speed ELSE 0)
                       + ChainDelay(e.transit \o target_devices[e.target]))
                        * Len(e.qubits)]_vars

C9_Witness ==
  /\ last.op = "QConnect.get"
  /\ last.outcome = "ok"
  /\ last.applied = <<"t1", "t2", "d1">>
  /\ Len(last.ret.payload) = 2
  /\ last.ret.delay = 2 * Delay["d1"] + 2 * (Delay["t1"] + Delay["t2"] + Delay["d1"])

\* C10: the delay crecv's get reports for n bits sent over a connection of
\* length L is perBit * n + (L / signal_speed) * n, for the per-bit constant.
PerBitConstants == {pulse_length_default, 8 * pulse_length_default}

C10_ClassicalDelay ==
  [][Returned("crecv")
       => \E k \in PerBitConstants :
            last'.ret.delay
              = k * Len(last'.ret.payload)
                + (LengthArg[last'.conn] \div signal_speed) * Len(last'.ret.payload)]_vars

\* the connection's chains are all empty for a transmission from x to y
NoDevices(x, y) ==
  /\ Resolve(qconnections[x], y) # NoConn
  /\ TransitArg[Resolve(qconnections[x], y)] = <<>>
  /\ source_devices[x] = <<>>
  /\ target_devices[y] = <<>>

\* C11: with X owning both tokens, Y owning none and a device-free connection
\* between them, X.qsend(Y, both) completes without error, and the Y.qrecv(X)
\* that follows completes without error, leaves Y owning both tokens and X
\* none, and advances Y's clock by 2 x pulse_length_default
\* + 2 x (fiber_length_default / signal_speed).
C11_EndToEnd ==
  [][/\ (/\ Called({"qsend"})
         /\ last'.payload = <<1, 2>>
         /\ SetOf(qubits[last'.agent]) = Tokens
         /\ SetOf(qubits[last'.peer]) = {}
         /\ NoDevices(last'.agent, last'.peer))
          => last'.outcome = "ok"
     /\ (/\ last.op = "qsend"
         /\ last.payload = <<1, 2>>
         /\ last.outcome # "Exception"
         /\ NoDevices(last.agent, last.peer)
         /\ Called({"qrecv"})
         /\ last'.agent = last.peer
         /\ last'.peer = last.agent)
          => /\ last.outcome = "ok"
             /\ last'.outcome = "ok"
             /\ SetOf(qubits'[last'.agent]) = Tokens
             /\ SetOf(qubits'[last.agent]) = {}
             /\ time'[last'.agent]
                  = time[last'.agent] + 2 * pulse_length_default
                    + 2 * (fiber_length_default \div signal_speed)]_vars

\* C12: a crecv that returns adds the delay the classical connection's get
\* reports to the receiver's time and returns the bits that were sent, alone.
C12_ClassicalReceive ==
  [][Returned("crecv")
       => LET e == Head(QueueOf(last'))
              a == last'.agent
          IN /\ time'[a] = time[a] + CScaledDelay(last'.conn, e)
             /\ last'.ret.shape = "cbits"
             /\ last'.ret.payload = e.cbits]_vars

\* C13: no step lowers any agent's time, and a step changes an agent's time
\* only if it is that agent's own receive returning; sends, and the receives
\* of other agents, leave it as it was.
C13_ClockDiscipline ==
  [][\A a \in Agents :
       /\ time'[a] >= time[a]
       /\ time'[a] # time[a]
            => (last'.op \in RecvOps /\ last'.agent = a /\ last'.outcome = "ok")
       /\ (Called(SendOps) \/ (Returned("crecv") /\ last'.agent # a)
           \/ (Returned("QConnect.get") /\ last'.agent # a))
            => time'[a] = time[a]]_vars

C13_Witness ==
  /\ last.op = "crecv"
  /\ last.outcome = "ok"
  /\ last.agent = "Bob"
  /\ last.ret.delay > 0
  /\ Len(enqueued[<<"qAB", "Bob">>]) > 0
  /\ time["Alice"] = 0

\* len(agent.qubits)
Size(b) == Cardinality(UNION {{<<t, i>> : i \in 1..b[t]} : t \in Tokens})

\* C14: no agent's qubits ever holds a token twice; after a get returns, every
\* token of its payload is among the receiver's qubits exactly once, and a
\* payload the receiver already owned entirely leaves the number of its
\* qubits unchanged.
C14_IdempotentMerge ==
  [][/\ \A a \in Agents, t \in Tokens : qubits'[a][t] <= 1
     /\ Returned("QConnect.get")
          => LET a == last'.agent
                 e == Head(QueueOf(last'))
             IN /\ \A t \in Range(e.qubits) : qubits'[a][t] = 1
                /\ Range(e.qubits) \subseteq SetOf(qubits[a])
                     => Size(qubits'[a]) = Size(qubits[a])]_vars

C14_Witness ==
  /\ last.op = "QConnect.get"
  /\ last.outcome = "ok"
  /\ last.agent = "Alice"
  /\ last.ret.payload = <<1, 2>>
  /\ ncalls = 2
  /\ Size(qubits["Alice"]) = 2

\* C15: add_device with role 'source' appends the device to the end of the
\* agent's source_devices and leaves its target_devices alone, with role
\* 'target' the other way round, and with any other role raises its error
\* with both lists as they were; no other agent's lists change.
C15_AttachDevice ==
  [][Called({"add_device"})
       => LET a == last'.agent
              role == last'.peer
              d == last'.applied[1]
          IN /\ role = "source"
                  => /\ last'.outcome = "ok"
                     /\ source_devices' =
                          [source_devices EXCEPT ![a] = source_devices[a] \o <<d>>]
                     /\ target_devices' = target_devices
             /\ role = "target"
                  => /\ last'.outcome = "ok"
                     /\ target_devices' =
                          [target_devices EXCEPT ![a] = target_devices[a] \o <<d>>]
                     /\ source_devices' = source_devices
             /\ role \notin {"source", "target"}
                  => /\ last'.outcome = "Exception"
                     /\ source_devices' = source_devices
                     /\ target_devices' = target_devices]_vars

C15_Witness ==
  /\ last.op = "add_device"
  /\ last.peer = "transit"
  /\ last.outcome = "Exception"
  /\ Len(source_devices[last.agent]) = 1
  /\ Len(target_devices[last.agent]) = 1

\* the other end of a connection
Other(c, a) == CHOOSE x \in Ends(c) : x # a

\* C16: a put applies the source's source_devices, in list order, and nothing
\* else; the get of that entry applies the transit devices and then the
\* receiver's target_devices, the transit devices in the constructor's order
\* when the sender is agent_one and in the reverse order when it is agent_two.
C16_DeviceOrder ==
  [][/\ Called({"QConnect.put"})
          => /\ last'.applied = source_devices[last'.agent]
             /\ Added(qqueues'[last'.conn][last'.peer]).transit
                  = (IF last'.agent = AgentOne[last'.conn]
                     THEN TransitArg[last'.conn]
                     ELSE Reverse(TransitArg[last'.conn]))
     /\ Returned("QConnect.get")
          => LET c == last'.conn
                 y == last'.agent
                 x == Other(c, y)
             IN last'.applied
                  = (IF x = AgentOne[c] THEN TransitArg[c]
                     ELSE Reverse(TransitArg[c])) \o target_devices[y]]_vars

C16_Witness ==
  /\ last.op = "QConnect.get"
  /\ last.outcome = "ok"
  /\ last.conn = "qAB"
  /\ last.agent = AgentOne["qAB"]
  /\ last.applied = <<"t2", "t1", "d1">>

\* C17: no qsend and no qrecv, failed ones included, changes the number of
\* holders of any token, so a token with one holder keeps exactly one; and a
\* qsend that fails on its ownership test or on an unregistered peer leaves
\* the sender's qubits as they were.
C17_TokenConservation ==
  [][Called({"qsend", "qrecv"})
       => /\ \A t \in Tokens : Holders(t)' = Holders(t)
          /\ last'.outcome \in {"Exception", "KeyError"} => qubits' = qubits]_vars

\* C18, in the form a finite run can refute: a qrecv on a registered peer never
\* fails; it blocks when nothing has been put on its direction, and blocks or
\* returns otherwise; and a blocked agent is released only by an entry on the
\* queue it waits on, never by anything else its peer does.
C18_MatchedReceive ==
  [][/\ (Called({"qrecv"}) /\ last'.conn # NoConn)
          => IF enqueued[<<last'.conn, last'.agent>>] = <<>>
             THEN last'.outcome = "blocked"
             ELSE last'.outcome \in {"ok", "blocked"}
     /\ \A a \in Agents :
          (pc[a] = "blocked" /\ pc'[a] = "ready")
            => IF waiting[a].call.op = "crecv"
               THEN cqueues[waiting[a].conn][waiting[a].key] # <<>>
               ELSE qqueues[waiting[a].conn][waiting[a].key] # <<>>]_vars

\* every queue of every quantum connection but the one keyed k on c is as it was
OtherQueuesUnchanged(c, k) ==
  \A d \in QConns : \A j \in Ends(d) :
    (d # c \/ j # k) => qqueues'[d][j] = qqueues[d][j]

\* C19: a put addressed to t on connection c adds its entry to the queue of c
\* keyed t and to no other; a get for a on c takes the oldest entry of the
\* queue of c keyed a, which was addressed to a by the other end of c, returns
\* that entry's qubits and touches no other queue.
C19_DirectionIsolation ==
  [][/\ Called({"QConnect.put"})
          => LET c == last'.conn
                 t == last'.peer
             IN /\ qqueues'[c][t] # <<>>
                /\ qqueues'[c][t] = Append(qqueues[c][t], Added(qqueues'[c][t]))
                /\ Added(qqueues'[c][t]).target = t
                /\ Added(qqueues'[c][t]).qubits = last'.payload
                /\ OtherQueuesUnchanged(c, t)
     /\ Returned("QConnect.get")
          => LET c == last'.conn
                 a == last'.agent
                 e == Head(qqueues[c][a])
             IN /\ e.target = a
                /\ e.transit = (IF Other(c, a) = AgentOne[c] THEN TransitArg[c]
                                ELSE Reverse(TransitArg[c]))
                /\ last'.ret.payload = e.qubits
                /\ Len(enqueued[<<c, a>>]) > Len(dequeued[<<c, a>>])
                /\ last'.ret.payload = enqueued[<<c, a>>][Len(dequeued[<<c, a>>]) + 1]
                /\ qqueues'[c][a] = Tail(qqueues[c][a])
                /\ OtherQueuesUnchanged(c, a)]_vars

C19_Witness ==
  /\ last.op = "QConnect.get"
  /\ last.outcome = "ok"
  /\ last.agent = "Bob"
  /\ last.conn = "qBC"
  /\ last.ret.payload = <<1>>
  /\ Len(qqueues["qAB"]["Bob"]) = 1
  /\ qqueues["qAB"]["Bob"][1].qubits = <<1, 2>>
  /\ Len(qqueues["qAB"]["Alice"]) = 1

\* C20: while an entry waits on a queue, the devices its get will apply and the
\* delay its get will report stay what they were when it was put: an
\* add_device by any agent changes neither.
C20_DeviceSnapshot ==
  [][Called({"add_device"})
       => \A p \in Pending :
            LET e == qqueues[p[1]][p[2]][p[3]]
            IN /\ TravelChain(e)' = TravelChain(e)
               /\ ScaledDelay(e)' = ScaledDelay(e)]_vars

====
